---------------------------- MODULE Spec2Model ----------------------------
(***************************************************************************)
(* BibClean: BibTeX formatting pipeline and DOI -> BibTeX batch            *)
(* conversion (src/unnamed/part_000, src/app.js).                          *)
(*                                                                         *)
(* JavaScript strings are modelled as sequences of one-character strings,  *)
(* so that splitting, trimming, regular-expression matching and            *)
(* serialisation are computed character by character as the code does.     *)
(***************************************************************************)
EXTENDS Naturals, Sequences, FiniteSets, TLC

(***************************************************************************)
(* Character classes of the JavaScript regular expressions used by the     *)
(* code: \s, \d, [A-Z], [a-z], \w.                                         *)
(***************************************************************************)
UpperSeq ==
  <<"A","B","C","D","E","F","G","H","I","J","K","L","M",
    "N","O","P","Q","R","S","T","U","V","W","X","Y","Z">>

LowerSeq ==
  <<"a","b","c","d","e","f","g","h","i","j","k","l","m",
    "n","o","p","q","r","s","t","u","v","w","x","y","z">>

DigitSeq == <<"0","1","2","3","4","5","6","7","8","9">>

Range(f) == {f[i] : i \in DOMAIN f}

Upper == Range(UpperSeq)

Lower == Range(LowerSeq)

Digit == Range(DigitSeq)

IsSpace(c) == c \in {" ", "\n", "\t", "\r"}

IsWordChar(c) == c \in Upper \cup Lower \cup Digit \cup {"_"}

IsAlnum(c) == c \in Upper \cup Lower \cup Digit

ToUpperChar(c) ==
  IF c \in Lower THEN UpperSeq[CHOOSE i \in DOMAIN LowerSeq : LowerSeq[i] = c] ELSE c

ToLowerChar(c) ==
  IF c \in Upper THEN LowerSeq[CHOOSE i \in DOMAIN UpperSeq : UpperSeq[i] = c] ELSE c

ToLowerCase(s) == [i \in 1..Len(s) |-> ToLowerChar(s[i])]

SetMin(S) == CHOOSE x \in S : \A y \in S : x <= y

SetMax(S) == CHOOSE x \in S : \A y \in S : y <= x

(***************************************************************************)
(* String primitives: String.prototype.trim, startsWith, endsWith,         *)
(* includes, slice(1,-1), Array.prototype.join, filter(Boolean).           *)
(***************************************************************************)
\* index of the first position >= i that is not whitespace (Len(s)+1 if none)
RECURSIVE SkipSpace(_, _)
SkipSpace(s, i) ==
  IF i <= Len(s) /\ IsSpace(s[i]) THEN SkipSpace(s, i + 1) ELSE i

\* index of the last position <= i that is not whitespace (0 if none)
RECURSIVE SkipSpaceBack(_, _)
SkipSpaceBack(s, i) ==
  IF i >= 1 /\ IsSpace(s[i]) THEN SkipSpaceBack(s, i - 1) ELSE i

Trim(s) == SubSeq(s, SkipSpace(s, 1), SkipSpaceBack(s, Len(s)))

StartsWith(s, p) == Len(s) >= Len(p) /\ SubSeq(s, 1, Len(p)) = p

EndsWith(s, p) == Len(s) >= Len(p) /\ SubSeq(s, Len(s) - Len(p) + 1, Len(s)) = p

MatchAt(s, i, p) == i + Len(p) - 1 <= Len(s) /\ SubSeq(s, i, i + Len(p) - 1) = p

Includes(s, p) == \E i \in 1..(Len(s) + 1) : MatchAt(s, i, p)

Slice1m1(s) == SubSeq(s, 2, Len(s) - 1)

RemoveChars(s, set) == SelectSeq(s, LAMBDA c : c \notin set)

RECURSIVE Join(_, _)
Join(parts, sep) ==
  IF Len(parts) = 0 THEN <<>>
  ELSE IF Len(parts) = 1 THEN parts[1]
  ELSE parts[1] \o sep \o Join(Tail(parts), sep)

NonEmpty(parts) == SelectSeq(parts, LAMBDA p : p # <<>>)

MapTrim(parts) == [i \in 1..Len(parts) |-> Trim(parts[i])]

\* s.replace(/\s+/g, " ")
RECURSIVE CollapseFrom(_, _)
CollapseFrom(s, i) ==
  IF i > Len(s) THEN <<>>
  ELSE IF IsSpace(s[i]) THEN <<" ">> \o CollapseFrom(s, SkipSpace(s, i))
  ELSE <<s[i]>> \o CollapseFrom(s, i + 1)

CollapseSpaces(s) == CollapseFrom(s, 1)

\* s.replace(/\./g, " ")
DotsToSpaces(s) == [i \in 1..Len(s) |-> IF s[i] = "." THEN " " ELSE s[i]]

\* s.split(/\s+/): the pieces between maximal whitespace runs, empty ones kept
RECURSIVE SplitSpaceFrom(_, _, _)
SplitSpaceFrom(s, i, cur) ==
  IF i > Len(s) THEN <<cur>>
  ELSE IF IsSpace(s[i]) THEN <<cur>> \o SplitSpaceFrom(s, SkipSpace(s, i), <<>>)
  ELSE SplitSpaceFrom(s, i + 1, Append(cur, s[i]))

SplitSpaces(s) == SplitSpaceFrom(s, 1, <<>>)

\* s.split(ch) for a one-character separator, empty pieces kept
RECURSIVE SplitCharFrom(_, _, _, _)
SplitCharFrom(s, ch, i, cur) ==
  IF i > Len(s) THEN <<cur>>
  ELSE IF s[i] = ch THEN <<cur>> \o SplitCharFrom(s, ch, i + 1, <<>>)
  ELSE SplitCharFrom(s, ch, i + 1, Append(cur, s[i]))

SplitChar(s, ch) == SplitCharFrom(s, ch, 1, <<>>)

\* end (exclusive) of a match of /\s+and\s+/i starting at i, or 0
AndSepEnd(s, i) ==
  IF i > Len(s) \/ ~IsSpace(s[i]) THEN 0
  ELSE LET a == SkipSpace(s, i)
       IN  IF a + 3 <= Len(s)
              /\ ToLowerCase(SubSeq(s, a, a + 2)) = <<"a","n","d">>
              /\ IsSpace(s[a + 3])
           THEN SkipSpace(s, a + 3)
           ELSE 0

\* s.split(/\s+and\s+/i)
RECURSIVE SplitAndFrom(_, _, _)
SplitAndFrom(s, i, cur) ==
  IF i > Len(s) THEN <<cur>>
  ELSE LET e == AndSepEnd(s, i)
       IN  IF e # 0 THEN <<cur>> \o SplitAndFrom(s, e, <<>>)
           ELSE SplitAndFrom(s, i + 1, Append(cur, s[i]))

SplitAnd(s) == SplitAndFrom(s, 1, <<>>)

\* s.split(/\r?\n/)
RECURSIVE SplitLinesFrom(_, _, _)
SplitLinesFrom(s, i, cur) ==
  IF i > Len(s) THEN <<cur>>
  ELSE IF s[i] = "\n" THEN <<cur>> \o SplitLinesFrom(s, i + 1, <<>>)
  ELSE IF s[i] = "\r" /\ i < Len(s) /\ s[i + 1] = "\n"
       THEN <<cur>> \o SplitLinesFrom(s, i + 2, <<>>)
  ELSE SplitLinesFrom(s, i + 1, Append(cur, s[i]))

SplitLines(s) == SplitLinesFrom(s, 1, <<>>)

(***************************************************************************)
(* The option checkboxes (noDots, tryExtractDoi, enforceDoiUrl) are DOM    *)
(* state read by the functions when they run.  The operators below take    *)
(* the values read as a parameter; the actions pass the live checkboxes.   *)
(***************************************************************************)

(***************************************************************************)
(* Author normalization (part_000, first copy)                             *)
(***************************************************************************)
cleanToken(t) == Trim(RemoveChars(t, {".", ","}))

FirstUpper(parts) == [i \in 1..Len(parts) |-> <<ToUpperChar(parts[i][1])>>]

MapClean(parts) == [i \in 1..Len(parts) |-> cleanToken(parts[i])]

makeInitialsFromGiven(given) ==
  LET parts == NonEmpty(MapClean(SplitSpaces(DotsToSpaces(given))))
  IN  Join(FirstUpper(parts), <<" ">>)

\* the text JavaScript interpolates for an undefined value
UndefinedText == <<"u","n","d","e","f","i","n","e","d">>

\* `${initials} ${family}`.trim().replace(/\s+/g, " "), then the noDots strip
FinishName(initials, family, nd) ==
  LET out == CollapseSpaces(Trim(initials \o <<" ">> \o family))
  IN  IF nd THEN RemoveChars(out, {"."}) ELSE out

CommaForm(n, nd) ==
  LET pieces == NonEmpty(MapTrim(SplitChar(n, ",")))
      family == IF Len(pieces) = 0 THEN <<>> ELSE cleanToken(pieces[1])
      given == IF Len(pieces) = 0 THEN <<>> ELSE Join(Tail(pieces), <<" ">>)
  IN  FinishName(makeInitialsFromGiven(given), family, nd)

SpaceForm(tokens, nd) ==
  IF Len(tokens) = 1 THEN tokens[1]
  ELSE LET family == IF Len(tokens) = 0 THEN UndefinedText ELSE tokens[Len(tokens)]
           givenTokens == IF Len(tokens) = 0 THEN <<>> ELSE SubSeq(tokens, 1, Len(tokens) - 1)
       IN  FinishName(Join(FirstUpper(givenTokens), <<" ">>), family, nd)

normalizeOneAuthorStrict(rawName, nd) ==
  LET n0 == Trim(rawName)
      n == CollapseSpaces(n0)
  IN  IF n0 = <<>> THEN <<>>
      ELSE IF StartsWith(n, <<"{">>) /\ EndsWith(n, <<"}">>) THEN n
      ELSE IF \E i \in 1..Len(n) : n[i] = "," THEN CommaForm(n, nd)
      ELSE SpaceForm(NonEmpty(MapClean(SplitSpaces(DotsToSpaces(n)))), nd)

normalizeAuthorsStrict(authorField, nd) ==
  LET authors == NonEmpty(MapTrim(SplitAnd(authorField)))
  IN  Join([i \in 1..Len(authors) |-> normalizeOneAuthorStrict(authors[i], nd)],
           <<" ","a","n","d"," ">>)

(***************************************************************************)
(* Author normalization (part_000, second copy): the space form splits on  *)
(* single spaces without first replacing periods by spaces.                *)
(***************************************************************************)
normalizeOneAuthorStrict2(rawName, nd) ==
  LET n0 == Trim(rawName)
      n == CollapseSpaces(n0)
  IN  IF n0 = <<>> THEN <<>>
      ELSE IF StartsWith(n, <<"{">>) /\ EndsWith(n, <<"}">>) THEN n
      ELSE IF \E i \in 1..Len(n) : n[i] = "," THEN CommaForm(n, nd)
      ELSE SpaceForm(NonEmpty(MapClean(SplitChar(n, " "))), nd)

normalizeAuthorsStrict2(authorField, nd) ==
  LET authors == NonEmpty(MapTrim(SplitAnd(authorField)))
  IN  Join([i \in 1..Len(authors) |-> normalizeOneAuthorStrict2(authors[i], nd)],
           <<" ","a","n","d"," ">>)

(***************************************************************************)
(* Title materials latexification                                          *)
(***************************************************************************)
RECURSIVE SkipDigits(_, _)
SkipDigits(s, i) ==
  IF i <= Len(s) /\ s[i] \in Digit THEN SkipDigits(s, i + 1) ELSE i

\* end (exclusive) of one element group [A-Z][a-z]?\d* at i, or 0
GroupEnd(s, i) ==
  IF i > Len(s) \/ s[i] \notin Upper THEN 0
  ELSE IF i + 1 <= Len(s) /\ s[i + 1] \in Lower THEN SkipDigits(s, i + 2)
  ELSE SkipDigits(s, i + 1)

\* greedy ([A-Z][a-z]?\d*)* from i: <<end (exclusive), number of groups>>
RECURSIVE GroupRun(_, _, _)
GroupRun(s, i, n) ==
  LET e == GroupEnd(s, i)
  IN  IF e = 0 THEN <<i, n>> ELSE GroupRun(s, e, n + 1)

\* \b at position i (between s[i-1] and s[i])
WordBoundary(s, i) ==
  LET before == i > 1 /\ IsWordChar(s[i - 1])
      after == i <= Len(s) /\ IsWordChar(s[i])
  IN  before # after

\* end (exclusive) of a match of /\b([A-Z][a-z]?\d*){2,}\b/ at i, or 0
FormulaEnd(s, i) ==
  LET r == GroupRun(s, i, 0)
  IN  IF WordBoundary(s, i) /\ r[2] >= 2 /\ WordBoundary(s, r[1]) THEN r[1] ELSE 0

\* token.replace(/([A-Z][a-z]?)(\d+)/g, el$_num$)
RECURSIVE SubscriptFrom(_, _)
SubscriptFrom(tok, i) ==
  IF i > Len(tok) THEN <<>>
  ELSE IF tok[i] \in Upper
  THEN LET el == IF i + 1 <= Len(tok) /\ tok[i + 1] \in Lower THEN i + 2 ELSE i + 1
           d == SkipDigits(tok, el)
       IN  IF d > el
           THEN SubSeq(tok, i, el - 1) \o <<"$","_">> \o SubSeq(tok, el, d - 1)
                \o <<"$">> \o SubscriptFrom(tok, d)
           ELSE <<tok[i]>> \o SubscriptFrom(tok, i + 1)
  ELSE <<tok[i]>> \o SubscriptFrom(tok, i + 1)

FormulaMarkup(token) ==
  IF \A i \in 1..Len(token) : token[i] \notin Digit THEN token
  ELSE <<"{">> \o SubscriptFrom(token, 1) \o <<"}">>

RECURSIVE LatexifyFrom(_, _)
LatexifyFrom(s, i) ==
  IF i > Len(s) THEN <<>>
  ELSE LET e == FormulaEnd(s, i)
       IN  IF e # 0 THEN FormulaMarkup(SubSeq(s, i, e - 1)) \o LatexifyFrom(s, e)
           ELSE <<s[i]>> \o LatexifyFrom(s, i + 1)

\* the replacement without the guard for titles that hold markup
latexifyUnguarded(title) ==
  IF title = <<>> THEN title ELSE LatexifyFrom(title, 1)

latexifyMaterialsInTitle(title) ==
  IF title = <<>> THEN title
  ELSE IF Includes(title, <<"$","_">>) \/ Includes(title, <<"\\","m","a","t","h","r","m">>) THEN title
  ELSE LatexifyFrom(title, 1)

(***************************************************************************)
(* DOI extraction and URL enforcement                                      *)
(***************************************************************************)
DoiMinDigits == 4

DoiMaxDigits == 9

IsDoiSuffixChar(c) == IsAlnum(c) \/ c \in {"-", ".", "_", ";", "(", ")", "/", ":"}

RECURSIVE SkipDoiSuffix(_, _)
SkipDoiSuffix(s, i) ==
  IF i <= Len(s) /\ IsDoiSuffixChar(s[i]) THEN SkipDoiSuffix(s, i + 1) ELSE i

\* end (exclusive) of a match of /10\.\d{4,9}\/[-._;()/:A-Z0-9]+/i at i, or 0
DoiEnd(s, i) ==
  IF ~MatchAt(s, i, <<"1","0",".">>) THEN 0
  ELSE LET d == SkipDigits(s, i + 3)
           n == d - (i + 3)
       IN  IF n >= DoiMinDigits /\ n <= DoiMaxDigits /\ d <= Len(s) /\ s[d] = "/"
              /\ SkipDoiSuffix(s, d + 1) > d + 1
           THEN SkipDoiSuffix(s, d + 1)
           ELSE 0

extractDoiFromText(text) ==
  LET t == Trim(text)
      starts == {i \in 1..Len(t) : DoiEnd(t, i) # 0}
  IN  IF starts = {} THEN <<>>
      ELSE SubSeq(t, SetMin(starts), DoiEnd(t, SetMin(starts)) - 1)

ResolverBase == <<"h","t","t","p","s",":","/","/","d","o","i",".","o","r","g","/">>

\* a resolver address that keeps the old host
doiUrlOldHost(doi) == <<"h","t","t","p",":","/","/","d","x",".","d","o","i",".","o","r","g","/">> \o doi

doiUrl(doi) == ResolverBase \o doi

(***************************************************************************)
(* BibTeX parsing                                                          *)
(***************************************************************************)
RECURSIVE SkipWord(_, _)
SkipWord(s, i) ==
  IF i <= Len(s) /\ IsWordChar(s[i]) THEN SkipWord(s, i + 1) ELSE i

\* bib.split(/(?=@\w+)/g): a cut before every "@" followed by a word
\* character, except at the very start
IsEntryStart(s, i) == i > 1 /\ s[i] = "@" /\ i < Len(s) /\ IsWordChar(s[i + 1])

RECURSIVE SplitEntriesFrom(_, _, _)
SplitEntriesFrom(s, i, cur) ==
  IF i > Len(s) THEN <<cur>>
  ELSE IF IsEntryStart(s, i) THEN <<cur>> \o SplitEntriesFrom(s, i + 1, <<s[i]>>)
  ELSE SplitEntriesFrom(s, i + 1, Append(cur, s[i]))

splitEntries(bib) == NonEmpty(MapTrim(SplitEntriesFrom(bib, 1, <<>>)))

\* index of the first position >= i that holds a character of chars
\* (Len(s)+1 if none)
RECURSIVE FindChar(_, _, _)
FindChar(s, i, chars) ==
  IF i <= Len(s) /\ s[i] \notin chars THEN FindChar(s, i + 1, chars) ELSE i

\* the header /^@(\w+)\s*\{\s*([^,]+)\s*,/s: the position of the comma that
\* ends it, or 0 when the header does not match
HeadEnd(text) ==
  IF Len(text) = 0 \/ text[1] # "@" THEN 0
  ELSE LET w == SkipWord(text, 2)
           b == SkipSpace(text, w)
           comma == FindChar(text, b + 1, {","})
       IN  IF w = 2 \/ b > Len(text) \/ text[b] # "{" \/ comma > Len(text) THEN 0
           ELSE IF comma = b + 1 THEN 0
           ELSE comma

HeadType(text) == ToLowerCase(SubSeq(text, 2, SkipWord(text, 2) - 1))

HeadKey(text) ==
  Trim(SubSeq(text, SkipSpace(text, SkipWord(text, 2)) + 1, HeadEnd(text) - 1))

\* rest.replace(/\}\s*$/s, "").trim()
EntryBody(rest) ==
  LET k == SkipSpaceBack(rest, Len(rest))
  IN  IF k >= 1 /\ rest[k] = "}" THEN Trim(SubSeq(rest, 1, k - 1))
      ELSE Trim(rest)

\* \{(?:[^{}]|\{[^{}]*\})*\} at v: end (exclusive), or 0
RECURSIVE BraceScan(_, _)
BraceScan(s, i) ==
  IF i > Len(s) THEN 0
  ELSE IF s[i] = "}" THEN i + 1
  ELSE IF s[i] = "{"
  THEN LET nxt == FindChar(s, i + 1, {"{", "}"})
       IN  IF nxt > Len(s) \/ s[nxt] = "{" THEN 0
           ELSE BraceScan(s, nxt + 1)
  ELSE BraceScan(s, i + 1)

BraceEnd(s, v) == IF v <= Len(s) /\ s[v] = "{" THEN BraceScan(s, v + 1) ELSE 0

\* "[^"]*" at v: end (exclusive), or 0
QuoteEnd(s, v) ==
  LET closing == FindChar(s, v + 1, {"\""})
  IN  IF v <= Len(s) /\ s[v] = "\"" /\ closing <= Len(s) THEN closing + 1 ELSE 0

\* [^,]+ at v: end (exclusive); v itself when s[v] is a comma or the end
BareEnd(s, v) == FindChar(s, v, {","})

\* the trailing \s*,? of the field pattern
AfterValue(s, e) ==
  LET w == SkipSpace(s, e)
  IN  IF w <= Len(s) /\ s[w] = "," THEN w + 1 ELSE w

\* one match of
\*   /(\w+)\s*=\s*(\{(?:[^{}]|\{[^{}]*\})*\}|"[^"]*"|[^,]+)\s*,?/gs
\* starting exactly at p: [ok, name, value (group 2), end (exclusive)]
NoField == [ok |-> FALSE, name |-> <<>>, value |-> <<>>, end |-> 0]

FieldAt(s, p) ==
  IF p > Len(s) \/ ~IsWordChar(s[p]) THEN NoField
  ELSE LET e == SkipWord(s, p)
           q == SkipSpace(s, e)
       IN  IF q > Len(s) \/ s[q] # "=" THEN NoField
           ELSE LET v == SkipSpace(s, q + 1)
                    nm == SubSeq(s, p, e - 1)
                IN  IF BraceEnd(s, v) # 0
                    THEN [ok |-> TRUE, name |-> nm,
                          value |-> SubSeq(s, v, BraceEnd(s, v) - 1),
                          end |-> AfterValue(s, BraceEnd(s, v))]
                    ELSE IF QuoteEnd(s, v) # 0
                    THEN [ok |-> TRUE, name |-> nm,
                          value |-> SubSeq(s, v, QuoteEnd(s, v) - 1),
                          end |-> AfterValue(s, QuoteEnd(s, v))]
                    ELSE IF BareEnd(s, v) > v
                    THEN [ok |-> TRUE, name |-> nm,
                          value |-> SubSeq(s, v, BareEnd(s, v) - 1),
                          end |-> AfterValue(s, BareEnd(s, v))]
                    ELSE IF v > q + 1
                    \* the \s* before the value gives one blank back to [^,]+
                    THEN [ok |-> TRUE, name |-> nm,
                          value |-> SubSeq(s, v - 1, v - 1),
                          end |-> AfterValue(s, v)]
                    ELSE NoField

\* value.trim(), then one layer of braces, then one layer of quotes
StripValue(raw) ==
  LET v0 == Trim(raw)
      v1 == IF StartsWith(v0, <<"{">>) /\ EndsWith(v0, <<"}">>)
            THEN Trim(Slice1m1(v0)) ELSE v0
  IN  IF StartsWith(v1, <<"\"">>) /\ EndsWith(v1, <<"\"">>)
      THEN Trim(Slice1m1(v1)) ELSE v1

Put(fields, name, v) ==
  [x \in (DOMAIN fields) \cup {name} |-> IF x = name THEN v ELSE fields[x]]

Get(fields, name) == IF name \in DOMAIN fields THEN fields[name] ELSE <<>>

NoFields == [x \in {} |-> <<>>]

\* the exec loop over the body
RECURSIVE ParseFields(_, _, _)
ParseFields(body, p, fields) ==
  IF p > Len(body) THEN fields
  ELSE LET m == FieldAt(body, p)
       IN  IF m.ok
           THEN ParseFields(body, m.end,
                            Put(fields, ToLowerCase(m.name), StripValue(m.value)))
           ELSE ParseFields(body, p + 1, fields)

\* the result of a failed parse (null)
NoEntry == [ok |-> FALSE, type |-> <<>>, key |-> <<>>, fields |-> NoFields]

parseEntry(entryText) ==
  IF HeadEnd(entryText) = 0 THEN NoEntry
  ELSE [ok |-> TRUE,
        type |-> HeadType(entryText),
        key |-> HeadKey(entryText),
        fields |-> ParseFields(
                     EntryBody(SubSeq(entryText, HeadEnd(entryText) + 1, Len(entryText))),
                     1, NoFields)]

(***************************************************************************)
(* Entry formatting                                                        *)
(***************************************************************************)
F_author == <<"a","u","t","h","o","r">>
F_title == <<"t","i","t","l","e">>
F_journal == <<"j","o","u","r","n","a","l">>
F_booktitle == <<"b","o","o","k","t","i","t","l","e">>
F_year == <<"y","e","a","r">>
F_volume == <<"v","o","l","u","m","e">>
F_number == <<"n","u","m","b","e","r">>
F_pages == <<"p","a","g","e","s">>
F_doi == <<"d","o","i">>
F_url == <<"u","r","l">>

preferred ==
  <<F_author, F_title, F_journal, F_booktitle, F_year, F_volume, F_number,
    F_pages, F_doi, F_url>>

\* UTF-16 code unit order of the characters a lower-cased field name can hold
CodeOrder == DigitSeq \o UpperSeq \o <<"_">> \o LowerSeq

CharRank(c) == CHOOSE i \in DOMAIN CodeOrder : CodeOrder[i] = c

\* a < b in the default Array.prototype.sort order
RECURSIVE StrLess(_, _)
StrLess(a, b) ==
  IF Len(b) = 0 THEN FALSE
  ELSE IF Len(a) = 0 THEN TRUE
  ELSE IF a[1] = b[1] THEN StrLess(Tail(a), Tail(b))
  ELSE CharRank(a[1]) < CharRank(b[1])

RECURSIVE SortNames(_)
SortNames(S) ==
  IF S = {} THEN <<>>
  ELSE LET m == CHOOSE x \in S : \A y \in S \ {x} : StrLess(x, y)
       IN  <<m>> \o SortNames(S \ {m})

stepAuthor(fields, o) ==
  IF Get(fields, F_author) # <<>>
  THEN Put(fields, F_author, normalizeAuthorsStrict(fields[F_author], o.noDots))
  ELSE fields

stepTitle(fields) ==
  IF Get(fields, F_title) # <<>>
  THEN Put(fields, F_title, latexifyMaterialsInTitle(fields[F_title]))
  ELSE fields

\* an extraction step that does not look for an existing DOI
stepExtractAlways(fields, o) ==
  IF o.tryExtractDoi /\ Get(fields, F_url) # <<>>
     /\ extractDoiFromText(fields[F_url]) # <<>>
  THEN Put(fields, F_doi, extractDoiFromText(fields[F_url]))
  ELSE fields

stepExtract(fields, o) ==
  IF o.tryExtractDoi /\ Get(fields, F_doi) = <<>> /\ Get(fields, F_url) # <<>>
     /\ extractDoiFromText(fields[F_url]) # <<>>
  THEN Put(fields, F_doi, extractDoiFromText(fields[F_url]))
  ELSE fields

stepEnforce(fields, o) ==
  IF o.enforceDoiUrl /\ Get(fields, F_doi) # <<>>
  THEN Put(Put(fields, F_doi, Trim(fields[F_doi])), F_url, doiUrl(Trim(fields[F_doi])))
  ELSE fields

\* the field mapping as formatEntry leaves it (it mutates fields in place)
formatFields(fields, o) ==
  stepEnforce(stepExtract(stepTitle(stepAuthor(fields, o)), o), o)

FieldLine(f, v) == <<" ", " ">> \o f \o <<" ", "=", " ", "{">> \o v \o <<"}">>

fieldLines(fields) ==
  LET pref == SelectSeq(preferred, LAMBDA f : Get(fields, f) # <<>>)
      extra == SortNames((DOMAIN fields) \ Range(preferred))
      order == pref \o extra
  IN  [i \in 1..Len(order) |-> FieldLine(order[i], fields[order[i]])]

serializeEntry(type, key, fields) ==
  <<"@">> \o type \o <<"{">> \o key \o <<",", "\n">>
  \o Join(fieldLines(fields), <<",", "\n">>) \o <<"\n", "}", "\n">>

formatEntry(entry, o) ==
  serializeEntry(entry.type, entry.key, formatFields(entry.fields, o))

(***************************************************************************)
(* Crossref metadata -> Entry                                              *)
(*                                                                         *)
(* A metadata record msg is modelled as                                    *)
(*   [author : Seq([given, family]), title, container : Seq(string),       *)
(*    issued : Seq(Nat), volume, issue, page, DOI, URL : string]           *)
(* where a missing attribute is the empty sequence: the adapter maps a     *)
(* missing attribute and an empty one to the same value.                   *)
(***************************************************************************)
RECURSIVE IntToStr(_)
IntToStr(n) ==
  IF n < 10 THEN <<DigitSeq[n + 1]>>
  ELSE IntToStr(n \div 10) \o <<DigitSeq[(n % 10) + 1]>>

FirstOrEmpty(arr) == IF Len(arr) > 0 THEN arr[1] ELSE <<>>

\* [given, family].filter(Boolean).join(" ").trim()
AuthorText(a) == Trim(Join(NonEmpty(<<Trim(a.given), Trim(a.family)>>), <<" ">>))

RefText == <<"r","e","f">>

PaperText == <<"p","a","p","e","r">>

ArticleType == <<"a","r","t","i","c","l","e">>

crossrefToBibEntry(msg) ==
  LET year == IF Len(msg.issued) > 0 THEN IntToStr(msg.issued[1]) ELSE <<>>
      title == FirstOrEmpty(msg.title)
      doi == msg.DOI
      url == IF doi # <<>> THEN ResolverBase \o doi ELSE msg.URL
      authors == Join(NonEmpty([i \in 1..Len(msg.author) |-> AuthorText(msg.author[i])]),
                      <<" ","a","n","d"," ">>)
      firstFamily == IF Len(msg.author) > 0 /\ msg.author[1].family # <<>>
                     THEN msg.author[1].family ELSE RefText
      firstWord == IF title # <<>>
                   THEN SelectSeq(SplitSpaces(title)[1], IsAlnum)
                   ELSE PaperText
      key == SelectSeq(firstFamily \o year \o firstWord, LAMBDA c : ~IsSpace(c))
  IN  [ok |-> TRUE, type |-> ArticleType, key |-> key,
       fields |-> (F_author :> authors) @@ (F_title :> title)
                  @@ (F_journal :> FirstOrEmpty(msg.container)) @@ (F_year :> year)
                  @@ (F_volume :> msg.volume) @@ (F_number :> msg.issue)
                  @@ (F_pages :> msg.page) @@ (F_doi :> doi) @@ (F_url :> url)]

(***************************************************************************)
(* The application state: the text areas, the option checkboxes, the       *)
(* status line, and one frame per invocation of the btnConvertDoi click    *)
(* handler (an async function that is suspended at each await).            *)
(***************************************************************************)
VARIABLES
  noDots,          \* checkbox #noDots
  tryExtractDoi,   \* checkbox #tryExtractDoi
  enforceDoiUrl,   \* checkbox #enforceDoiUrl
  bibIn,           \* textarea #bibIn
  bibOut,          \* textarea #bibOut
  doiIn,           \* textarea #doiIn
  doiOut,          \* textarea #doiOut
  status,          \* #status textContent
  runs,            \* suspended frames of the btnConvertDoi handler, one per slot
  lastDone,        \* the btnConvertDoi frame that ended last
  bibPass,         \* what the last btnFormatBib click did
  authorCase,      \* an author-list string and its normalizations
  entryCase,       \* an entry, its formatting and its re-parsing
  titleCase,       \* a title and its latexifications
  formCase         \* one name in comma form and in space form, normalized

uiVars ==
  <<noDots, tryExtractDoi, enforceDoiUrl, bibIn, bibOut, doiIn, doiOut, status,
    runs, lastDone, bibPass>>

\* authorCase, entryCase, titleCase and formCase hold one application of the pure functions to an
\* input (specifications SpecAuthors and SpecEntry); the page leaves them alone
caseVars == <<authorCase, entryCase, titleCase, formCase>>

vars == <<uiVars, caseVars>>

\* the option values the functions read from the DOM right now
LiveOptions ==
  [noDots |-> noDots, tryExtractDoi |-> tryExtractDoi, enforceDoiUrl |-> enforceDoiUrl]

(***************************************************************************)
(* Status messages.  A message built from a template keeps its numbers.    *)
(***************************************************************************)
StatusText(t) == [text |-> t, n |-> 0, ok |-> 0, failed |-> 0]

StatusFormatted(n) == [text |-> "Formatted {n} entr(y|ies).", n |-> n, ok |-> 0, failed |-> 0]

StatusConverted(ok, failed) ==
  [text |-> "Converted {ok} DOI(s). Failed: {failed}.", n |-> 0, ok |-> ok, failed |-> failed]

(***************************************************************************)
(* Inputs the user and the network can supply                              *)
(***************************************************************************)
MaxRuns == 1

\* conversions that can be suspended at once when clicks overlap (SpecOverlap)
MaxOverlap == 2

Doi1 == <<"1","0",".","1","/","a">>

Doi2 == <<"1","0",".","2","/","b">>

Doi3 == <<"1","0",".","3","/","c">>

DoiTexts ==
  { <<>>,
    <<" ", "\n", "\t">>,
    <<" ">> \o Doi1 \o <<"\r", "\n", "\n">> \o Doi2 \o <<"\n">> }

EntryGood1 == <<"@","A","{","k","1",","," ","t","i","t","l","e"," ","="," ","{","H","2","O","}","}">>

EntryGood2 == <<"@","b","{","k","2",",","x","=","1","}">>

EntryNoComma == <<"@","c","{","n","o","k","e","y">>

BibTexts ==
  { <<>>,
    <<"\n", " ">>,
    <<"j","u","n","k">>,
    EntryNoComma,
    EntryGood1,
    EntryGood1 \o <<"\n">> \o EntryNoComma,
    EntryGood1 \o <<"\n">> \o EntryGood2 }

\* a metadata record without a DOI whose URL holds one: the formatted entry
\* depends on tryExtractDoi and enforceDoiUrl
MsgUrlOnly ==
  [author |-> <<[given |-> <<"A","l">>, family |-> <<"E","i","n">>]>>,
   title |-> <<<<"O","n"," ","H","2","O">>>>, container |-> <<>>, issued |-> <<1905>>,
   volume |-> <<>>, issue |-> <<>>, page |-> <<>>,
   DOI |-> <<>>, URL |-> <<"h","t","t","p",":","/","/","x","/","1","0",".","1","2","3","4","/","b">>]

Messages == {MsgUrlOnly}

HttpErrorCodes == {404}

\* e.message of the errors the runtime raises (the text is the runtime's)
FetchRejectedText == <<"F","a","i","l","e","d"," ","t","o"," ","f","e","t","c","h">>

JsonRejectedText == <<"U","n","e","x","p","e","c","t","e","d"," ","t","o","k","e","n">>

NoMessageText == <<"m","s","g"," ","i","s"," ","u","n","d","e","f","i","n","e","d">>

CrossrefErrorText(code) == <<"C","r","o","s","s","r","e","f"," ","e","r","r","o","r"," ">> \o IntToStr(code)

(***************************************************************************)
(* btnFormatBib click handler                                              *)
(***************************************************************************)
MapParse(entries) == [i \in 1..Len(entries) |-> parseEntry(entries[i])]

MapFormat(parsed, o) == [i \in 1..Len(parsed) |-> formatEntry(parsed[i], o)]

ClickFormatBib ==
  LET input == bibIn
      entries == splitEntries(input)
      parsed == SelectSeq(MapParse(entries), LAMBDA e : e.ok)
  IN  /\ IF Trim(input) = <<>>
         THEN /\ status' = StatusText("Paste a .bib first.")
              /\ bibOut' = bibOut
              /\ bibPass' = [clicked |-> TRUE, input |-> input, splitCalls |-> 0,
                             parseCalls |-> 0, fragments |-> 0, parsed |-> 0,
                             wrote |-> FALSE, said |-> status']
         ELSE IF Len(parsed) = 0
         THEN /\ status' = StatusText("Could not detect BibTeX entries.")
              /\ bibOut' = bibOut
              /\ bibPass' = [clicked |-> TRUE, input |-> input, splitCalls |-> 1,
                             parseCalls |-> Len(entries), fragments |-> Len(entries),
                             parsed |-> 0, wrote |-> FALSE, said |-> status']
         ELSE /\ status' = StatusFormatted(Len(parsed))
              /\ bibOut' = Join(MapFormat(parsed, LiveOptions), <<"\n">>)
              /\ bibPass' = [clicked |-> TRUE, input |-> input, splitCalls |-> 1,
                             parseCalls |-> Len(entries), fragments |-> Len(entries),
                             parsed |-> Len(parsed), wrote |-> TRUE, said |-> status']
      /\ UNCHANGED <<noDots, tryExtractDoi, enforceDoiUrl, bibIn, doiIn, doiOut, runs, lastDone,
                 caseVars>>

ClickClearBib ==
  /\ bibIn' = <<>>
  /\ bibOut' = <<>>
  /\ status' = StatusText("")
  /\ UNCHANGED <<noDots, tryExtractDoi, enforceDoiUrl, doiIn, doiOut, runs, lastDone, bibPass,
                 caseVars>>

(***************************************************************************)
(* btnConvertDoi click handler                                             *)
(*                                                                         *)
(* A frame holds the handler's locals (dois, the loop position i, combined,*)
(* ok, failed) and where it is suspended: "fetch" (await fetch(url)),      *)
(* "json" (await res.json()), "done" (ran to the end), "returned" (left at *)
(* the empty-input return).  issued, log, pubOut and pubStatus record      *)
(* what the handler did: the identifiers it started a lookup for, what     *)
(* each iteration appended, and what its last two statements wrote.  runs  *)
(* has MaxRuns slots for suspended frames (NoRun marks a free slot);       *)
(* lastDone is the frame that ended since the last click, if any.          *)
(***************************************************************************)
FailLine(doi, reason) ==
  <<"%"," ","F","a","i","l","e","d"," ","D","O","I",":"," ">> \o doi \o <<" ", "(">> \o reason \o <<")", "\n">>

\* the lines without .filter(Boolean)
parseDoiLinesKeepBlank(text) == MapTrim(SplitLines(text))

parseDoiLines(text) == NonEmpty(MapTrim(SplitLines(text)))

NewRun(input, dois) ==
  [input |-> input, dois |-> dois, i |-> 1, pc |-> IF Len(dois) = 0 THEN "returned" ELSE "fetch",
   combined |-> <<>>, ok |-> 0, failed |-> 0,
   issued |-> IF Len(dois) = 0 THEN <<>> ELSE <<dois[1]>>,
   log |-> <<>>, pubOut |-> <<>>,
   pubStatus |-> StatusText(IF Len(dois) = 0 THEN "Paste at least one DOI." ELSE "")]

\* a loop that a failure ends
AdvanceStopAtFailure(run, success, block, item) ==
  LET last == run.i = Len(run.dois) \/ ~success
      combined == run.combined \o block
      ok == IF success THEN run.ok + 1 ELSE run.ok
      failed == IF success THEN run.failed ELSE run.failed + 1
  IN  [run EXCEPT
         !.combined = combined, !.ok = ok, !.failed = failed,
         !.log = Append(run.log, item),
         !.i = run.i + 1,
         !.pc = IF last THEN "done" ELSE "fetch",
         !.issued = IF last THEN run.issued ELSE Append(run.issued, run.dois[run.i + 1]),
         !.pubOut = IF last THEN Trim(combined) \o <<"\n">> ELSE run.pubOut,
         !.pubStatus = IF last THEN StatusConverted(ok, failed) ELSE run.pubStatus]

\* a loop whose buffer also holds what the other suspended frames appended
AdvanceSharedBuffer(run, success, block, item) ==
  LET last == run.i = Len(run.dois)
      others == Join([r \in DOMAIN runs |->
                        IF runs[r] = run THEN <<>> ELSE runs[r].combined], <<>>)
      combined == others \o run.combined \o block
      ok == IF success THEN run.ok + 1 ELSE run.ok
      failed == IF success THEN run.failed ELSE run.failed + 1
  IN  [run EXCEPT
         !.combined = combined, !.ok = ok, !.failed = failed,
         !.log = Append(run.log, item),
         !.i = run.i + 1,
         !.pc = IF last THEN "done" ELSE "fetch",
         !.issued = IF last THEN run.issued ELSE Append(run.issued, run.dois[run.i + 1]),
         !.pubOut = IF last THEN Trim(combined) \o <<"\n">> ELSE run.pubOut,
         !.pubStatus = IF last THEN StatusConverted(ok, failed) ELSE run.pubStatus]

\* one loop iteration has appended block; the loop goes on to the next
\* identifier (calling fetch for it) or ends
Advance(run, success, block, item) ==
  LET last == run.i = Len(run.dois)
      combined == run.combined \o block
      ok == IF success THEN run.ok + 1 ELSE run.ok
      failed == IF success THEN run.failed ELSE run.failed + 1
  IN  [run EXCEPT
         !.combined = combined, !.ok = ok, !.failed = failed,
         !.log = Append(run.log, item),
         !.i = run.i + 1,
         !.pc = IF last THEN "done" ELSE "fetch",
         !.issued = IF last THEN run.issued ELSE Append(run.issued, run.dois[run.i + 1]),
         !.pubOut = IF last THEN Trim(combined) \o <<"\n">> ELSE run.pubOut,
         !.pubStatus = IF last THEN StatusConverted(ok, failed) ELSE run.pubStatus]

\* a catch branch that counts the identifier as converted
FailCountedOk(run, reason) ==
  LET doi == run.dois[run.i]
      block == FailLine(doi, reason)
  IN  Advance(run, TRUE, block,
              [doi |-> doi, ok |-> FALSE, reason |-> reason, entry |-> NoEntry,
               block |-> block])

\* the catch branch
Fail(run, reason) ==
  LET doi == run.dois[run.i]
      block == FailLine(doi, reason)
  IN  Advance(run, FALSE, block,
              [doi |-> doi, ok |-> FALSE, reason |-> reason, entry |-> NoEntry,
               block |-> block])

\* crossrefToBibEntry(msg) and formatEntry of it under option values o,
\* tabulated over the metadata the network can return
Options == [noDots : BOOLEAN, tryExtractDoi : BOOLEAN, enforceDoiUrl : BOOLEAN]

EntryOf == [msg \in Messages |-> crossrefToBibEntry(msg)]

FormattedOf == [msg \in Messages |-> [o \in Options |-> formatEntry(EntryOf[msg], o)]]

\* the try branch after the metadata arrived
Succeed(run, msg) ==
  LET entry == EntryOf[msg]
      block == FormattedOf[msg][LiveOptions] \o <<"\n">>
  IN  Advance(run, TRUE, block,
              [doi |-> run.dois[run.i], ok |-> TRUE, reason |-> <<>>, entry |-> entry,
               block |-> block])

\* no frame
NoRun ==
  [input |-> <<>>, dois |-> <<>>, i |-> 0, pc |-> "none", combined |-> <<>>, ok |-> 0, failed |-> 0,
   issued |-> <<>>, log |-> <<>>,
   pubOut |-> <<>>, pubStatus |-> StatusText("")]

\* the frame goes on: it stays suspended, or it has ended and its last two
\* statements write the output and the status
Resume(r, run) ==
  /\ UNCHANGED <<noDots, tryExtractDoi, enforceDoiUrl, bibIn, bibOut, doiIn, bibPass,
                 caseVars>>
  /\ IF run.pc = "done"
     THEN /\ runs' = [runs EXCEPT ![r] = NoRun]
          /\ lastDone' = run
          /\ doiOut' = lastDone'.pubOut
          /\ status' = lastDone'.pubStatus
     ELSE /\ runs' = [runs EXCEPT ![r] = run]
          /\ UNCHANGED <<lastDone, doiOut, status>>

Slots == 1..MaxOverlap

FreeSlots == {r \in Slots : runs[r] = NoRun}

\* the click handler runs up to its first await (or to its early return)
\* while fewer than limit earlier invocations are suspended
ConvertDoiClicked(limit) ==
  /\ Cardinality(Slots \ FreeSlots) < limit
  /\ LET dois == parseDoiLines(doiIn)
     IN  /\ doiOut' = <<>>
         /\ IF Len(dois) = 0
            THEN /\ lastDone' = NewRun(doiIn, dois)
                 /\ status' = lastDone'.pubStatus
                 /\ runs' = runs
            ELSE /\ status' = StatusText("")
                 /\ lastDone' = NoRun
                 /\ runs' = [runs EXCEPT ![SetMin(FreeSlots)] = NewRun(doiIn, dois)]
  /\ UNCHANGED <<noDots, tryExtractDoi, enforceDoiUrl, bibIn, bibOut, doiIn, bibPass,
                 caseVars>>

ClickConvertDoi == ConvertDoiClicked(MaxRuns)

\* a click while an earlier conversion may still be suspended
ClickConvertDoiWhileBusy == ConvertDoiClicked(MaxOverlap)

\* await fetch(url) settles: the request failed, or a response arrived
FetchRejects(r) ==
  /\ runs[r].pc = "fetch"
  /\ Resume(r, Fail(runs[r], FetchRejectedText))

FetchNotOk(r) ==
  /\ runs[r].pc = "fetch"
  /\ \E code \in HttpErrorCodes : Resume(r, Fail(runs[r], CrossrefErrorText(code)))

FetchOk(r) ==
  /\ runs[r].pc = "fetch"
  /\ Resume(r, [runs[r] EXCEPT !.pc = "json"])

\* await res.json() settles: the body is not JSON, or data arrived
JsonRejects(r) ==
  /\ runs[r].pc = "json"
  /\ Resume(r, Fail(runs[r], JsonRejectedText))

\* data.message is undefined: crossrefToBibEntry throws on msg.title
JsonNoMessage(r) ==
  /\ runs[r].pc = "json"
  /\ Resume(r, Fail(runs[r], NoMessageText))

JsonMessage(r) ==
  /\ runs[r].pc = "json"
  /\ \E msg \in Messages : Resume(r, Succeed(runs[r], msg))

(***************************************************************************)
(* The user                                                                *)
(***************************************************************************)
ToggleNoDots ==
  /\ noDots' = ~noDots
  /\ UNCHANGED <<tryExtractDoi, enforceDoiUrl, bibIn, bibOut, doiIn, doiOut, status,
                 runs, lastDone, bibPass,
                 caseVars>>

ToggleTryExtractDoi ==
  /\ tryExtractDoi' = ~tryExtractDoi
  /\ UNCHANGED <<noDots, enforceDoiUrl, bibIn, bibOut, doiIn, doiOut, status,
                 runs, lastDone, bibPass,
                 caseVars>>

ToggleEnforceDoiUrl ==
  /\ enforceDoiUrl' = ~enforceDoiUrl
  /\ UNCHANGED <<noDots, tryExtractDoi, bibIn, bibOut, doiIn, doiOut, status,
                 runs, lastDone, bibPass,
                 caseVars>>

EditBibIn ==
  /\ \E t \in BibTexts : bibIn' = t
  /\ UNCHANGED <<noDots, tryExtractDoi, enforceDoiUrl, bibOut, doiIn, doiOut, status,
                 runs, lastDone, bibPass,
                 caseVars>>

\* the user pastes a single identifier
PasteOneDoi ==
  /\ doiIn' = Doi3
  /\ UNCHANGED <<noDots, tryExtractDoi, enforceDoiUrl, bibIn, bibOut, doiOut, status,
                 runs, lastDone, bibPass,
                 caseVars>>

EditDoiIn ==
  /\ \E t \in DoiTexts : doiIn' = t
  /\ UNCHANGED <<noDots, tryExtractDoi, enforceDoiUrl, bibIn, bibOut, doiOut, status,
                 runs, lastDone, bibPass,
                 caseVars>>

NoAuthorCase == [pc |-> "none", copy |-> 1, input |-> <<>>, once |-> <<>>, twice |-> <<>>]

NoEntryCase ==
  [pc |-> "none", source |-> "none", text |-> <<>>, entry |-> NoEntry,
   beforeExtract |-> NoFields, afterExtract |-> NoFields, formatted |-> NoFields,
   out1 |-> <<>>, reparsed |-> NoEntry, out2 |-> <<>>, again |-> NoFields]

NoFormCase ==
  [pc |-> "none", copy |-> 1, family |-> <<>>, given |-> <<>>, comma |-> <<>>, space |-> <<>>,
   fromComma |-> <<>>, fromSpace |-> <<>>]

NoTitleCase == [pc |-> "none", input |-> <<>>, once |-> <<>>, twice |-> <<>>]

NoBibPass ==
  [clicked |-> FALSE, input |-> <<>>, splitCalls |-> 0, parseCalls |-> 0,
   fragments |-> 0, parsed |-> 0, wrote |-> FALSE, said |-> StatusText("")]

(***************************************************************************)
(* Spec: the DOI pane of the page.  The checkboxes start in any position;  *)
(* the text areas and the status line start empty.                         *)
(***************************************************************************)
InitPage ==
  /\ noDots \in BOOLEAN
  /\ tryExtractDoi \in BOOLEAN
  /\ enforceDoiUrl \in BOOLEAN
  /\ bibIn = <<>>
  /\ bibOut = <<>>
  /\ doiIn = <<>>
  /\ doiOut = <<>>
  /\ status = StatusText("")
  /\ runs = [r \in Slots |-> NoRun]
  /\ bibPass = NoBibPass
  /\ lastDone = NoRun

Init ==
  /\ InitPage
  /\ authorCase = NoAuthorCase
  /\ entryCase = NoEntryCase
  /\ titleCase = NoTitleCase
  /\ formCase = NoFormCase

Next ==
  \/ ToggleNoDots
  \/ ToggleTryExtractDoi
  \/ ToggleEnforceDoiUrl
  \/ EditDoiIn
  \/ ClickConvertDoi
  \/ \E r \in Slots : FetchRejects(r)
  \/ \E r \in Slots : FetchNotOk(r)
  \/ \E r \in Slots : FetchOk(r)
  \/ \E r \in Slots : JsonRejects(r)
  \/ \E r \in Slots : JsonNoMessage(r)
  \/ \E r \in Slots : JsonMessage(r)

Spec == Init /\ [][Next]_vars

\* every lookup that was started is answered: each await settles
Settles(r) ==
  /\ WF_vars(FetchRejects(r) \/ FetchNotOk(r) \/ FetchOk(r))
  /\ WF_vars(JsonRejects(r) \/ JsonNoMessage(r) \/ JsonMessage(r))

FairSpec == Spec /\ \A r \in Slots : Settles(r)

(***************************************************************************)
(* SpecBib: the BibTeX pane of the page.                                   *)
(***************************************************************************)
NextBib ==
  \/ ToggleNoDots
  \/ ToggleTryExtractDoi
  \/ ToggleEnforceDoiUrl
  \/ EditBibIn
  \/ ClickFormatBib
  \/ ClickClearBib

SpecBib == Init /\ [][NextBib]_vars

(***************************************************************************)
(* SpecOffline: both panes of the page while no lookup is answered.        *)
(***************************************************************************)
NextOffline ==
  \/ EditBibIn
  \/ ClickFormatBib
  \/ ClickClearBib
  \/ EditDoiIn
  \/ ClickConvertDoi

SpecOffline == Init /\ [][NextOffline]_vars

(***************************************************************************)
(* Properties of the DOI pane                                              *)
(***************************************************************************)
\* the suspended frames and the frame that ended last
Frames == {runs[r] : r \in Slots} \cup {lastDone}

Blocks(run) == [i \in 1..Len(run.log) |-> run.log[i].block]

CountOk(run, ok) == Cardinality({i \in 1..Len(run.log) : run.log[i].ok = ok})

Newlines(s) == Cardinality({i \in 1..Len(s) : s[i] = "\n"})

\* a formatted entry, under some option values, on a line of its own
IsEntryBlock(item) ==
  \E o \in Options : item.block = formatEntry(item.entry, o) \o <<"\n">>

\* one comment line that names the identifier
IsFailureLine(item) ==
  /\ StartsWith(item.block, <<"%">>)
  /\ Includes(item.block, item.doi)
  /\ EndsWith(item.block, <<"\n">>)
  /\ Newlines(item.block) = 1

\* C1: when a conversion over identifiers d1..dn (n >= 1) has finished, the
\* output is exactly n blocks in input order, block i the formatted entry for
\* di if its lookup succeeded and a failure comment line naming di otherwise,
\* and the status reports ok = successes, failed = failures, ok + failed = n.
C1_BatchOutput ==
  lastDone.pc = "done" =>
    LET run == lastDone
        n == Len(run.dois)
    IN  /\ n >= 1
        /\ Len(run.log) = n
        /\ \A i \in 1..n :
             /\ run.log[i].doi = run.dois[i]
             /\ IF run.log[i].ok THEN IsEntryBlock(run.log[i])
                                ELSE IsFailureLine(run.log[i])
        /\ Trim(doiOut) = Trim(Join(Blocks(run), <<>>))
        /\ EndsWith(doiOut, <<"\n">>)
        /\ status = StatusConverted(CountOk(run, TRUE), CountOk(run, FALSE))
        /\ status.ok + status.failed = n

C1_Witness ==
  /\ lastDone.pc = "done"
  /\ Len(lastDone.dois) = 2
  /\ lastDone.log[1].ok
  /\ ~lastDone.log[2].ok
  /\ status = StatusConverted(1, 1)

\* the lookups a frame has started are the first identifiers of its input,
\* in order, one more than the results appended while it is suspended and
\* all of them when it has ended
OneAtATime(f) ==
  /\ f.issued = SubSeq(f.dois, 1, Len(f.issued))
  /\ f.pc \in {"fetch", "json"} => Len(f.issued) = Len(f.log) + 1
  /\ f.pc = "done" => f.issued = f.dois /\ Len(f.log) = Len(f.dois)

\* a frame leaves its slot only by ending, and then its output is published
EndsPublishing(r) ==
  runs[r] # NoRun /\ runs'[r] = NoRun =>
    /\ lastDone'.pc = "done"
    /\ lastDone'.dois = runs[r].dois
    /\ doiOut' = lastDone'.pubOut
    /\ status' = lastDone'.pubStatus

\* C2: within one conversion the lookup for identifier i+1 is started only
\* after the result for identifier i has been appended, in input order; a
\* failure does not end the pass, every identifier is looked up exactly once;
\* and when every lookup is answered the conversion ends and publishes.
C2_Sequential ==
  /\ [](\A f \in Frames : OneAtATime(f))
  /\ [][\A r \in Slots : EndsPublishing(r)]_vars
  /\ \A r \in Slots : (runs[r] # NoRun) ~> (runs[r] = NoRun)

C2_Witness ==
  /\ lastDone.pc = "done"
  /\ Len(lastDone.dois) = 2
  /\ ~lastDone.log[1].ok
  /\ lastDone.issued = lastDone.dois
  /\ doiOut = lastDone.pubOut

\* C3: every entry formatted during one conversion is formatted under the
\* option values of the moment the conversion started, so two entries made
\* from the same metadata within one conversion come out the same, also when
\* a checkbox changes while a lookup is awaited.
C3_OptionsSnapshot ==
  \A f \in Frames : \A i, j \in 1..Len(f.log) :
    f.log[i].ok /\ f.log[j].ok /\ f.log[i].entry = f.log[j].entry
      => f.log[i].block = f.log[j].block

(***************************************************************************)
(* Properties of the BibTeX pane and of empty input                        *)
(***************************************************************************)
\* C4: when a formatting pass drops a fragment that does not parse while other
\* fragments parse, what the user sees shows it: the status says more than
\* the number of entries formatted, or the output holds a comment line.
C4_DropsAreTraced ==
  bibPass.wrote /\ bibPass.parsed < bibPass.fragments =>
    \/ bibPass.said # StatusFormatted(bibPass.parsed)
    \/ Includes(bibOut, <<"%">>)

\* no character of the text is outside whitespace: no line of it is non-blank
Blank(text) == \A i \in 1..Len(text) : IsSpace(text[i])

\* C5: a formatting pass over empty or whitespace-only text calls neither the
\* splitter nor the parser, and a conversion whose input has no non-blank
\* line starts no lookup; both report the empty-input status and emit nothing.
C5_EmptyInput ==
  /\ bibPass.clicked /\ Blank(bibPass.input) =>
       /\ bibPass.splitCalls = 0
       /\ bibPass.parseCalls = 0
       /\ ~bibPass.wrote
       /\ bibPass.said = StatusText("Paste a .bib first.")
  /\ \A f \in Frames : f # NoRun /\ Blank(f.input) =>
       /\ f.pc = "returned"
       /\ f.issued = <<>>
       /\ f.log = <<>>
       /\ f.pubOut = <<>>
       /\ f.pubStatus = StatusText("Paste at least one DOI.")
       /\ doiOut = <<>>

C5_Witness ==
  /\ bibPass.clicked
  /\ Blank(bibPass.input)
  /\ bibPass.input # <<>>
  /\ lastDone.pc = "returned"
  /\ Blank(lastDone.input)
  /\ lastDone.input # <<>>
  /\ status = StatusText("Paste at least one DOI.")

(***************************************************************************)
(* SpecAuthors: normalizeAuthorsStrict (either copy) applied to an author  *)
(* list, and applied again to its result.                                  *)
(***************************************************************************)
MaxAuthors == 2

NameComma ==
  <<"E","i","n","s","t","e","i","n",","," ","A","l","b","e","r","t">>

NameSpace ==
  <<"A","l","b","e","r","t"," ","E","i","n","s","t","e","i","n">>

NameDotted ==
  <<"J","."," ","R","."," ","T","o","l","k","i","e","n">>

NameMononym ==
  <<"P","l","a","t","o">>

NameParticle ==
  <<"v","a","n"," ","G","o","g","h",","," ","V","i","n","c","e","n","t">>

NameCorporate ==
  <<"{","{","A","T","L","A","S"," ","C","o","l","l","a","b","o","r","a","t","i","o","n","}","}">>

NameCorporateAnd ==
  <<"{","{","S","c","i","e","n","c","e"," ","a","n","d"," ","T","e","c","h","n","o","l","o","g",
    "y"," ","C","o","u","n","c","i","l","}","}">>

NameCorporateDotted ==
  <<"{","{","U",".","S","."," ","A","r","m","y","}","}">>

NameForms ==
  {NameComma,
   NameSpace,
   NameDotted,
   NameMononym,
   NameParticle,
   NameCorporate,
   NameCorporateAnd,
   NameCorporateDotted}

AndSeparator == <<" ","a","n","d"," ">>

AuthorLists ==
  UNION {{Join(names, AndSeparator) : names \in [1..k -> NameForms]} : k \in 1..MaxAuthors}

normalizeAuthorsOf(copy, authorField, nd) ==
  IF copy = 1 THEN normalizeAuthorsStrict(authorField, nd)
              ELSE normalizeAuthorsStrict2(authorField, nd)

InitAuthors ==
  /\ InitPage
  /\ \E copy \in {1, 2}, a \in AuthorLists :
       authorCase = [NoAuthorCase EXCEPT !.pc = "start", !.copy = copy, !.input = a]
  /\ entryCase = NoEntryCase
  /\ titleCase = NoTitleCase
  /\ formCase = NoFormCase

NormalizeOnce ==
  /\ authorCase.pc = "start"
  /\ authorCase' = [authorCase EXCEPT
       !.pc = "once",
       !.once = normalizeAuthorsOf(authorCase.copy, authorCase.input, noDots)]
  /\ UNCHANGED <<uiVars, entryCase, titleCase, formCase>>

NormalizeTwice ==
  /\ authorCase.pc = "once"
  /\ authorCase' = [authorCase EXCEPT
       !.pc = "twice",
       !.twice = normalizeAuthorsOf(authorCase.copy, authorCase.once, noDots)]
  /\ UNCHANGED <<uiVars, entryCase, titleCase, formCase>>

NextAuthors == NormalizeOnce \/ NormalizeTwice

SpecAuthors == InitAuthors /\ [][NextAuthors]_vars

\* C7: normalizing an already normalized author list gives the same string,
\* for names in comma form, space form and corporate form joined by " and ".
C7_Idempotent ==
  authorCase.pc = "twice" => authorCase.twice = authorCase.once

\* the text is one name wrapped in a brace pair that closes at its end
RECURSIVE BraceDepthAt(_, _)
BraceDepthAt(s, i) ==
  IF i = 0 THEN 0
  ELSE BraceDepthAt(s, i - 1)
       + (IF s[i] = "{" THEN 1 ELSE IF s[i] = "}" THEN 0 - 1 ELSE 0)

IsWrapped(s) ==
  /\ Len(s) >= 2
  /\ s[1] = "{"
  /\ s[Len(s)] = "}"
  /\ \A i \in 1..(Len(s) - 1) : BraceDepthAt(s, i) >= 1

\* C8: an author name fully wrapped in a top-level brace pair is returned
\* verbatim, character for character, whatever text is inside the braces.
C8_CorporateVerbatim ==
  authorCase.pc \in {"once", "twice"} /\ IsWrapped(authorCase.input)
    => authorCase.once = authorCase.input

(***************************************************************************)
(* SpecEntry: formatEntry applied to an entry that parseEntry returned for *)
(* a text or that crossrefToBibEntry built, then parseEntry and            *)
(* formatEntry applied to its output, then the reconciliation applied to   *)
(* the formatted fields again.  The checkboxes keep their values.          *)
(***************************************************************************)
MaxFields == 2

FieldAuthorComma ==
  <<"a","u","t","h","o","r"," ","="," ","{","E","i","n","s","t","e","i","n",","," ","A","l","b",
    "e","r","t","}">>

FieldAuthorParticle ==
  <<"a","u","t","h","o","r"," ","="," ","{","v","a","n"," ","G","o","g","h",","," ","V","i","n",
    "c","e","n","t","}">>

FieldTitle ==
  <<"t","i","t","l","e"," ","="," ","{","G","r","o","w","t","h"," ","o","f"," ","B","i","2","T",
    "e","3",","," ","a","g","a","i","n","}">>

FieldYear ==
  <<"y","e","a","r"," ","="," ","1","9","9","9">>

FieldNoteQuoted ==
  <<"n","o","t","e"," ","="," ","\"","a"," ","{","b","}"," ","c","\"">>

\* a bare value that ends in a closing brace
FieldNoteBare ==
  <<"n","o","t","e"," ","="," ","a","}">>

FieldDoi ==
  <<"d","o","i"," ","="," ","{","1","0",".","1","0","0","0","/","x","y","z","}">>

FieldDoiEmpty ==
  <<"d","o","i"," ","="," ","{","}">>

FieldUrlDoi ==
  <<"u","r","l"," ","="," ","{","h","t","t","p","s",":","/","/","d","o","i",".","o","r","g","/",
    "1","0",".","1","0","3","8","/","s","4","1","5","8","6","-","0","2","0","-","1","2","3","4",
    "-","5","}">>

FieldUrlTwoDois ==
  <<"u","r","l"," ","="," ","{","h","t","t","p",":","/","/","x",".","o","r","g","/","1","0",".",
    "1","2","3","/","a","?","i","d","=","1","0",".","1","2","3","4","5","/","B","(","7",")",";",
    "c"," ","1","0",".","5","5","5","5","/","z","}">>

FieldUrlPlain ==
  <<"u","r","l"," ","="," ","{","h","t","t","p",":","/","/","x",".","o","r","g","/","1","0",".",
    "1","2","3","4","5","6","7","8","9","0","/","a","}">>

FieldPool ==
  <<FieldAuthorComma,
    FieldAuthorParticle,
    FieldTitle,
    FieldYear,
    FieldNoteQuoted,
    FieldNoteBare,
    FieldDoi,
    FieldDoiEmpty,
    FieldUrlDoi,
    FieldUrlTwoDois,
    FieldUrlPlain>>

EntryHead ==
  <<"@","A","r","t","i","c","l","e","{","k","1",",","\n"," "," ">>

EntryFoot ==
  <<"\n","}","\n">>

\* the entry text with the chosen fields of the pool, in pool order
EntryText(chosen) ==
  LET picked == SelectSeq([i \in 1..Len(FieldPool) |-> i], LAMBDA i : i \in chosen)
  IN  EntryHead
      \o Join([k \in 1..Len(picked) |-> FieldPool[picked[k]]], <<",", "\n", " ", " ">>)
      \o EntryFoot

\* a fragment whose key position holds one blank, and one that holds nothing
EntryBlankKey ==
  <<"@","A","r","t","i","c","l","e","{"," ",",","\n"," "," ">> \o FieldYear \o EntryFoot

EntryNoKey ==
  <<"@","A","r","t","i","c","l","e","{",",","\n"," "," ">> \o FieldYear \o EntryFoot

EntryTexts ==
  {EntryText(chosen) :
     chosen \in {c \in SUBSET (1..Len(FieldPool)) : Cardinality(c) <= MaxFields}}
  \cup {EntryBlankKey, EntryNoKey}

\* a metadata record whose DOI has surrounding whitespace
MsgSpacedDoi ==
  [author |-> <<>>, title |-> <<>>, container |-> <<>>, issued |-> <<>>,
   volume |-> <<>>, issue |-> <<>>, page |-> <<>>,
   DOI |-> <<" ","1","0",".","1","0","0","0","/","a"," ">>, URL |-> <<>>]

EntryMessages == {MsgUrlOnly, MsgSpacedDoi}

InitEntry ==
  /\ InitPage
  /\ authorCase = NoAuthorCase
  /\ titleCase = NoTitleCase
  /\ formCase = NoFormCase
  /\ \/ \E text \in EntryTexts :
          entryCase = [NoEntryCase EXCEPT !.pc = "entry", !.source = "text",
                                          !.text = text, !.entry = parseEntry(text)]
     \/ \E msg \in EntryMessages :
          entryCase = [NoEntryCase EXCEPT !.pc = "entry", !.source = "metadata",
                                          !.entry = crossrefToBibEntry(msg)]

\* formatEntry(entry), with the field mapping before and after its
\* extraction step and as it leaves it
FormatFirst ==
  /\ entryCase.pc = "entry"
  /\ entryCase.entry.ok
  /\ LET o == LiveOptions
         before == stepTitle(stepAuthor(entryCase.entry.fields, o))
     IN  entryCase' = [entryCase EXCEPT
           !.pc = "formatted",
           !.beforeExtract = before,
           !.afterExtract = stepExtract(before, o),
           !.formatted = formatFields(entryCase.entry.fields, o),
           !.out1 = formatEntry(entryCase.entry, o)]
  /\ UNCHANGED <<uiVars, authorCase, titleCase, formCase>>

\* parseEntry of the formatted text
Reparse ==
  /\ entryCase.pc = "formatted"
  /\ entryCase' = [entryCase EXCEPT !.pc = "reparsed",
                                    !.reparsed = parseEntry(entryCase.out1)]
  /\ UNCHANGED <<uiVars, authorCase, titleCase, formCase>>

\* formatEntry of the re-parsed entry
FormatSecond ==
  /\ entryCase.pc = "reparsed"
  /\ entryCase.reparsed.ok
  /\ entryCase' = [entryCase EXCEPT !.pc = "round",
                                    !.out2 = formatEntry(entryCase.reparsed, LiveOptions)]
  /\ UNCHANGED <<uiVars, authorCase, titleCase, formCase>>

\* formatEntry's steps on the fields it has already formatted
FormatAgain ==
  /\ entryCase.pc = "round"
  /\ entryCase' = [entryCase EXCEPT !.pc = "again",
                                    !.again = formatFields(entryCase.formatted, LiveOptions)]
  /\ UNCHANGED <<uiVars, authorCase, titleCase, formCase>>

NextEntry == FormatFirst \/ Reparse \/ FormatSecond \/ FormatAgain

SpecEntry == InitEntry /\ [][NextEntry]_vars

\* C6: for an entry e that parseEntry returned and fixed option values,
\* formatEntry(parseEntry(formatEntry(e))) equals formatEntry(e).
C6_RoundTrip ==
  entryCase.source = "text" /\ entryCase.pc \in {"reparsed", "round", "again"} =>
    /\ entryCase.reparsed.ok
    /\ entryCase.pc # "reparsed" => entryCase.out2 = entryCase.out1

Formatted == entryCase.pc \in {"formatted", "reparsed", "round", "again"}

CanonicalBase == <<"h","t","t","p","s",":","/","/","d","o","i",".","o","r","g","/">>

\* C9: after formatEntry has run with enforcement enabled on an entry that
\* has a DOI once the extraction step is done, url is "https://doi.org/"
\* followed by the doi field, whatever url was before; formatting the result
\* again leaves doi and url unchanged.
C9_EnforcedUrl ==
  Formatted /\ enforceDoiUrl /\ Get(entryCase.afterExtract, F_doi) # <<>> =>
    /\ F_url \in DOMAIN entryCase.formatted
    /\ entryCase.formatted[F_url] = CanonicalBase \o Get(entryCase.formatted, F_doi)
    /\ entryCase.pc = "again" =>
         /\ Get(entryCase.again, F_doi) = Get(entryCase.formatted, F_doi)
         /\ Get(entryCase.again, F_url) = Get(entryCase.formatted, F_url)

\* an entry with a DOI of its own and another URL has been formatted twice
C9_Witness ==
  /\ entryCase.pc = "again"
  /\ enforceDoiUrl
  /\ Get(entryCase.entry.fields, F_doi) # <<>>
  /\ Get(entryCase.entry.fields, F_url) # <<>>
  /\ Get(entryCase.entry.fields, F_url)
       # CanonicalBase \o Get(entryCase.entry.fields, F_doi)
  /\ entryCase.again[F_url] = CanonicalBase \o entryCase.again[F_doi]

\* the DOI shape 10.<4-9 digits>/<suffix>, letters in either case
IsDoiShape(s) ==
  \E k \in 4..9 :
    /\ Len(s) >= 3 + k + 2
    /\ SubSeq(s, 1, 3) = <<"1", "0", ".">>
    /\ \A i \in 4..(3 + k) : s[i] \in Digit
    /\ s[4 + k] = "/"
    /\ \A i \in (5 + k)..Len(s) :
         s[i] \in Upper \cup Lower \cup Digit \cup {"-", ".", "_", ";", "(", ")", "/", ":"}

ShapeStarts(url) ==
  {i \in 1..Len(url) : \E j \in i..Len(url) : IsDoiShape(SubSeq(url, i, j))}

\* the first substring of that shape: it starts at the leftmost place where
\* one starts and runs as far as the shape allows
FirstDoiShape(url) ==
  LET i == CHOOSE x \in ShapeStarts(url) : \A y \in ShapeStarts(url) : x <= y
      ends == {j \in i..Len(url) : IsDoiShape(SubSeq(url, i, j))}
      j == CHOOSE x \in ends : \A y \in ends : y <= x
  IN  SubSeq(url, i, j)

\* C10: with extraction enabled, no DOI and a URL, the extraction step sets
\* doi to the first substring of the URL that has the DOI shape; when the
\* URL holds none, extraction is disabled, or the entry has a DOI, the step
\* leaves the fields as they are.
C10_Extraction ==
  Formatted =>
    LET before == entryCase.beforeExtract
        url == Get(before, F_url)
    IN  IF tryExtractDoi /\ Get(before, F_doi) = <<>> /\ url # <<>>
           /\ ShapeStarts(url) # {}
        THEN entryCase.afterExtract = Put(before, F_doi, FirstDoiShape(url))
        ELSE entryCase.afterExtract = before

\* a DOI was taken from a URL that holds more than one candidate
C10_Witness ==
  /\ Formatted
  /\ tryExtractDoi
  /\ Get(entryCase.beforeExtract, F_doi) = <<>>
  /\ Cardinality(ShapeStarts(Get(entryCase.beforeExtract, F_url))) >= 2
  /\ Get(entryCase.afterExtract, F_doi) # <<>>

(***************************************************************************)
(* Properties of serialization                                             *)
(***************************************************************************)
\* the names of a field mapping in the order the format fixes: the preferred
\* names that the mapping holds, then the other names in ascending order
FixedOrder(fields) ==
  SelectSeq(preferred, LAMBDA f : f \in DOMAIN fields)
  \o SortNames((DOMAIN fields) \ Range(preferred))

\* one line "  name = {value}" per name of the mapping, in the fixed order
OneLinePerField(fields) ==
  Join([i \in 1..Len(FixedOrder(fields)) |->
          <<" ", " ">> \o FixedOrder(fields)[i] \o <<" ", "=", " ", "{">>
          \o fields[FixedOrder(fields)[i]] \o <<"}">>],
       <<",", "\n">>)

\* C11: the text formatEntry returns holds exactly one line per field of the
\* entry's field mapping: the preferred fields the mapping holds, in the
\* fixed order, then every other field in alphabetical order; no field of
\* the mapping is left out and none appears twice.
C11_OneLinePerField ==
  Formatted =>
    entryCase.out1 =
      <<"@">> \o entryCase.entry.type \o <<"{">> \o entryCase.entry.key \o <<",", "\n">>
      \o OneLinePerField(entryCase.formatted) \o <<"\n", "}", "\n">>


(***************************************************************************)
(* Properties of parsing                                                   *)
(***************************************************************************)
\* C12: whenever parseEntry returns an entry for a fragment rather than the
\* failure signal, the entry's citation key is not empty.
C12_KeyNonEmpty ==
  entryCase.source = "text" /\ entryCase.entry.ok => entryCase.entry.key # <<>>


(***************************************************************************)
(* SpecTitle: latexifyMaterialsInTitle applied to a title, and applied     *)
(* again to its result.                                                    *)
(***************************************************************************)
MaxTitleLen == 4

TitleAlphabet == {"A", "b", "2", " ", "$", "_"}

RECURSIVE TitlesOfLen(_)
TitlesOfLen(n) ==
  IF n = 0 THEN {<<>>}
  ELSE {Append(s, c) : s \in TitlesOfLen(n - 1), c \in TitleAlphabet}

TitleNanosheets ==
  <<"B","i","2","T","e","3"," ","n","a","n","o","s","h","e","e","t","s">>

TitleMarked ==
  <<"x","$","_","1","$"," ","a","n","d"," ","M","o","S","2">>

TitleMathMode ==
  <<"\\","m","a","t","h","r","m","{","F","e","2","O","3","}"," ","f","i","l","m","s">>

TitleAcronyms ==
  <<"D","N","A"," ","i","n"," ","2","D"," ","F","e","P","S","3","-","b","a","s","e","d"," ",
    "C","O","2","x">>

Titles ==
  UNION {TitlesOfLen(n) : n \in 0..MaxTitleLen}
  \cup {TitleNanosheets, TitleMarked, TitleMathMode, TitleAcronyms}

InitTitle ==
  /\ InitPage
  /\ authorCase = NoAuthorCase
  /\ entryCase = NoEntryCase
  /\ formCase = NoFormCase
  /\ \E t \in Titles : titleCase = [NoTitleCase EXCEPT !.pc = "start", !.input = t]

LatexifyOnce ==
  /\ titleCase.pc = "start"
  /\ titleCase' = [titleCase EXCEPT !.pc = "once",
                                    !.once = latexifyMaterialsInTitle(titleCase.input)]
  /\ UNCHANGED <<uiVars, authorCase, entryCase, formCase>>

LatexifyTwice ==
  /\ titleCase.pc = "once"
  /\ titleCase' = [titleCase EXCEPT !.pc = "twice",
                                    !.twice = latexifyMaterialsInTitle(titleCase.once)]
  /\ UNCHANGED <<uiVars, authorCase, entryCase, formCase>>

NextTitle == LatexifyOnce \/ LatexifyTwice

SpecTitle == InitTitle /\ [][NextTitle]_vars

\* the title holds the subscript marker or the math-mode marker somewhere
HoldsMarkup(t) ==
  \/ \E i \in 1..(Len(t) - 1) : t[i] = "$" /\ t[i + 1] = "_"
  \/ \E i \in 1..(Len(t) - 6) : SubSeq(t, i, i + 6) = <<"\\","m","a","t","h","r","m">>

\* C13: formatting a formatted title again gives the same title; a title that
\* holds "$_" or "\mathrm" anywhere is returned as it is; and a title in which
\* a formula token was rewritten is not rewritten by a second pass.
C13_TitleIdempotent ==
  /\ titleCase.pc \in {"once", "twice"} /\ HoldsMarkup(titleCase.input)
       => titleCase.once = titleCase.input
  /\ titleCase.pc = "twice" => titleCase.twice = titleCase.once

\* the spec's example, and a title with markup and a formula token
C13_Witness ==
  /\ titleCase.pc = "twice"
  /\ titleCase.input = TitleNanosheets
  /\ titleCase.once =
       <<"{","B","i","$","_","2","$","T","e","$","_","3","$","}"," ","n","a","n","o","s","h",
         "e","e","t","s">>
  /\ titleCase.twice = titleCase.once


(***************************************************************************)
(* SpecForms: normalizeAuthorsStrict (either copy) applied to one name     *)
(* written in comma form and in space form.                                *)
(***************************************************************************)
MaxGiven == 2

FamilyNames == {<<"E","i","n","s","t","e","i","n">>, <<"t","o","l","k","i","e","n">>}

GivenTokens == {<<"A","l","b","e","r","t">>, <<"J">>, <<"r">>, <<"J","e","a","n","-","P","a","u","l">>}

\* what stands between two given-name tokens, and after the last one
GivenSeparators == {<<" ">>, <<".">>, <<".", " ">>, <<" ", " ">>}

GivenEndings == {<<>>, <<".">>}

GivenLists == UNION {[1..k -> GivenTokens] : k \in 1..MaxGiven}

InitForms ==
  /\ InitPage
  /\ authorCase = NoAuthorCase
  /\ entryCase = NoEntryCase
  /\ titleCase = NoTitleCase
  /\ \E copy \in {1, 2}, family \in FamilyNames, given \in GivenLists,
        sep \in GivenSeparators, ending \in GivenEndings :
       LET text == Join(given, sep) \o ending
       IN  formCase = [NoFormCase EXCEPT
             !.pc = "start", !.copy = copy, !.family = family, !.given = given,
             !.comma = family \o <<",", " ">> \o text,
             !.space = text \o <<" ">> \o family]

NormalizeCommaForm ==
  /\ formCase.pc = "start"
  /\ formCase' = [formCase EXCEPT
       !.pc = "comma",
       !.fromComma = normalizeAuthorsOf(formCase.copy, formCase.comma, noDots)]
  /\ UNCHANGED <<uiVars, authorCase, entryCase, titleCase>>

NormalizeSpaceForm ==
  /\ formCase.pc = "comma"
  /\ formCase' = [formCase EXCEPT
       !.pc = "both",
       !.fromSpace = normalizeAuthorsOf(formCase.copy, formCase.space, noDots)]
  /\ UNCHANGED <<uiVars, authorCase, entryCase, titleCase>>

NextForms == NormalizeCommaForm \/ NormalizeSpaceForm

SpecForms == InitForms /\ [][NextForms]_vars

\* one upper-cased initial per given-name token, then the family name
InitialsThenFamily(given, family) ==
  Join([i \in 1..Len(given) |-> <<ToUpperChar(given[i][1])>>] \o <<family>>, <<" ">>)

\* C14: for a one-token family name F and given-name tokens separated by
\* whitespace or periods, "F, <given>" and "<given> F" normalize to the same
\* string: one upper-cased initial per given-name token followed by F.
C14_FormsAgree ==
  formCase.pc = "both" =>
    /\ formCase.fromComma = formCase.fromSpace
    /\ formCase.fromComma = InitialsThenFamily(formCase.given, formCase.family)


(***************************************************************************)
(* Properties of the noDots option                                         *)
(***************************************************************************)
\* C15: with the noDots checkbox checked, the string normalizeAuthorsStrict
\* returns holds no period, whatever the author list.
C15_NoPeriods ==
  authorCase.pc \in {"once", "twice"} /\ noDots =>
    \A i \in 1..Len(authorCase.once) : authorCase.once[i] # "."


(***************************************************************************)
(* SpecOverlap: the DOI pane when the button is clicked again while an     *)
(* earlier conversion is suspended at an await.  The checkboxes are left   *)
(* unchecked and are not touched.                                          *)
(***************************************************************************)
InitOverlap ==
  /\ Init
  /\ ~noDots
  /\ ~tryExtractDoi
  /\ ~enforceDoiUrl

NextOverlap ==
  \/ EditDoiIn
  \/ PasteOneDoi
  \/ ClickConvertDoiWhileBusy
  \/ \E r \in Slots : FetchRejects(r)
  \/ \E r \in Slots : FetchNotOk(r)
  \/ \E r \in Slots : FetchOk(r)
  \/ \E r \in Slots : JsonRejects(r)
  \/ \E r \in Slots : JsonNoMessage(r)
  \/ \E r \in Slots : JsonMessage(r)

SpecOverlap == InitOverlap /\ [][NextOverlap]_vars


\* the buffer of a frame holds the blocks that frame appended, and no other
OwnBuffer(f) == f.combined = Join(Blocks(f), <<>>)

\* the output text is the complete result of the frame: one block per
\* identifier of its input, in order, and nothing else
CompleteResultOf(out, f) ==
  /\ f.pc = "done"
  /\ Len(f.log) = Len(f.dois)
  /\ \A i \in 1..Len(f.dois) : f.log[i].doi = f.dois[i]
  /\ out = Trim(Join(Blocks(f), <<>>)) \o <<"\n">>

\* the frame of slot r ends in this step: the output and the counts written
\* are those of that frame
EndsWithOwnResult(r) ==
  runs[r] # NoRun /\ runs'[r] = NoRun =>
    /\ lastDone'.input = runs[r].input
    /\ SubSeq(lastDone'.log, 1, Len(runs[r].log)) = runs[r].log
    /\ CompleteResultOf(doiOut', lastDone')
    /\ status' = StatusConverted(CountOk(lastDone', TRUE), CountOk(lastDone', FALSE))

\* C16: when conversions overlap, each accumulates into its own buffer; the
\* output text is at every moment empty or the complete result of exactly one
\* conversion, and the counts written together with an output are the counts
\* of that same conversion.
C16_NoMixing ==
  /\ [](\A f \in Frames : OwnBuffer(f))
  /\ [](doiOut = <<>> \/ CompleteResultOf(doiOut, lastDone))
  /\ [][\A r \in Slots : EndsWithOwnResult(r)]_vars

\* a conversion started second has ended and published while the one started
\* first, over another input, is suspended with a result in its buffer
C16_Witness ==
  /\ lastDone.pc = "done"
  /\ doiOut # <<>>
  /\ \E r \in Slots :
       /\ runs[r] # NoRun
       /\ runs[r].input # lastDone.input
       /\ Len(runs[r].log) >= 1


=============================================================================
